---- MODULE Spec2Model ----
(***************************************************************************)
(* Line-based union / intersection of text buffers (src/main.rs).          *)
(*                                                                         *)
(* A run of do_calculation: the first buffer seeds the accumulator         *)
(* (UnionSet or IntersectSet), every later buffer is folded in by          *)
(* operate, and write_to emits the accumulator's lines.                    *)
(*                                                                         *)
(* A line slice (&[u8]) is a record [src, begin, end]: the bytes           *)
(* begin..end (0-based, end exclusive) of the buffer src, where src = 0 is *)
(* the to_vec() copy of the first buffer made by do_calculation and        *)
(* src = k >= 1 is the k-th element of texts.                              *)
(***************************************************************************)
EXTENDS Integers, Sequences, FiniteSets, TLC

\* b'\n', the byte Memchr searches for
NL == 10

\* bounds of the model
MaxLen == 3
MaxBufs == 2

\* the bytes buffers are drawn from: newline and 'x'
Bytes == {NL, 120}

Buffers == UNION {[1..n -> Bytes] : n \in 0..MaxLen}

Inputs == UNION {[1..n -> Buffers] : n \in 0..MaxBufs}

VARIABLES
  op,       \* OpName given to do_calculation
  texts,    \* the buffers behind the Iter<TextVec>
  pos,      \* how many items the Iter has yielded
  pc,       \* "start", "fold", "done" or "panicked"
  text,     \* txt.to_vec(): the copy of the first buffer (IntersectSet.text)
  uset,     \* the UnionSet accumulator: owned lines in insertion order
  iset,     \* IntersectSet.set: slices of text in insertion order
  other,    \* the SliceSet built by the latest IntersectSet::operate
  calls,    \* the insert_line calls made so far: [recv, line]
  log,      \* the SetExpression calls made so far: <<method, buffer index>>
  output    \* the arguments of out.write_all, in order

vars == <<op, texts, pos, pc, text, uset, iset, other, calls, log, output>>

----------------------------------------------------------------------------
\* Memory and slices

\* the buffers a slice can point into, given the copy t of the first buffer
Mem(t) == [s \in 0..Len(texts) |-> IF s = 0 THEN t ELSE texts[s]]

\* the bytes a slice denotes
Content(mem, line) == SubSeq(mem[line.src], line.begin + 1, line.end)

\* Memchr::new(b'\n', text): the 0-based positions of the newlines, ascending
RECURSIVE MemchrFrom(_, _)
MemchrFrom(t, i) ==
  IF i >= Len(t) THEN <<>>
  ELSE IF t[i + 1] = NL THEN <<i>> \o MemchrFrom(t, i + 1)
  ELSE MemchrFrom(t, i + 1)

Memchr(t) == MemchrFrom(t, 0)

\* the loop of insert_all_lines: the slices it passes to insert_line, in order
RECURSIVE LinesLoop(_, _, _, _, _)
LinesLoop(src, t, ends, begin, acc) ==
  IF ends = <<>>
  THEN IF begin < Len(t)
       THEN Append(acc, [src |-> src, begin |-> begin, end |-> Len(t)])
       ELSE acc
  ELSE LinesLoop(src, t, Tail(ends), Head(ends) + 1,
                 Append(acc, [src |-> src, begin |-> begin, end |-> Head(ends) + 1]))

\* insert_all_lines without its trailing `if begin < text.len()` block
insert_all_lines_args_no_tail(mem, src) ==
  LET ends == Memchr(mem[src])
  IN [i \in DOMAIN ends |->
        [src |-> src,
         begin |-> IF i = 1 THEN 0 ELSE ends[i - 1] + 1,
         end |-> ends[i] + 1]]

insert_all_lines_args(mem, src) == LinesLoop(src, mem[src], Memchr(mem[src]), 0, <<>>)

----------------------------------------------------------------------------
\* SliceSet = IndexSet<&[u8]>

\* a line without its trailing newline
Trimmed(c) == IF c # <<>> /\ c[Len(c)] = NL THEN SubSeq(c, 1, Len(c) - 1) ELSE c

\* contains comparing lines with their terminators stripped
contains_trimmed(mem, set, line) ==
  \E i \in DOMAIN set :
    Trimmed(Content(mem, set[i])) = Trimmed(Content(mem, line))

\* IndexSet::contains: equality of keys is equality of bytes
contains(mem, set, line) ==
  \E i \in DOMAIN set : Content(mem, set[i]) = Content(mem, line)

\* insert_line as a plain push, with no lookup
SliceSet_insert_line_push(mem, set, line) == Append(set, line)

\* IndexSet::insert keeps the stored key and its position when an equal one exists
SliceSet_insert_line(mem, set, line) ==
  IF contains(mem, set, line) THEN set ELSE Append(set, line)

RECURSIVE SliceSet_insert_lines(_, _, _)
SliceSet_insert_lines(mem, set, lines) ==
  IF lines = <<>> THEN set
  ELSE SliceSet_insert_lines(mem, SliceSet_insert_line(mem, set, Head(lines)), Tail(lines))

SliceSet_insert_all_lines(mem, set, src) ==
  SliceSet_insert_lines(mem, set, insert_all_lines_args(mem, src))

SliceSet_init_from_slice(mem, src) == SliceSet_insert_all_lines(mem, <<>>, src)

\* retain whose predicate compares the slices themselves, not their bytes
retain_same_slice(mem, set, keepset) ==
  SelectSeq(set, LAMBDA e : \E i \in DOMAIN keepset : keepset[i] = e)

\* IndexSet::retain: keeps the entries satisfying keep, in their order
RECURSIVE retain(_, _, _)
retain(mem, set, keepset) ==
  IF set = <<>> THEN <<>>
  ELSE IF contains(mem, keepset, Head(set))
       THEN <<Head(set)>> \o retain(mem, Tail(set), keepset)
       ELSE retain(mem, Tail(set), keepset)

----------------------------------------------------------------------------
\* UnionSet = IndexSet<Vec<u8>>

\* insert that moves an already present line to the end
UnionSet_insert_line_move(mem, set, line) ==
  LET v == Content(mem, line)
  IN Append(SelectSeq(set, LAMBDA e : e # v), v)

\* insert_line as a plain push, with no lookup
UnionSet_insert_line_push(mem, set, line) == Append(set, Content(mem, line))

UnionSet_insert_line(mem, set, line) ==
  LET v == Content(mem, line)
  IN IF \E i \in DOMAIN set : set[i] = v THEN set ELSE Append(set, v)

RECURSIVE UnionSet_insert_lines(_, _, _)
UnionSet_insert_lines(mem, set, lines) ==
  IF lines = <<>> THEN set
  ELSE UnionSet_insert_lines(mem, UnionSet_insert_line(mem, set, Head(lines)), Tail(lines))

UnionSet_insert_all_lines(mem, set, src) ==
  UnionSet_insert_lines(mem, set, insert_all_lines_args(mem, src))

UnionSet_init_from_slice(mem, src) == UnionSet_insert_all_lines(mem, <<>>, src)

----------------------------------------------------------------------------
\* SetExpression

UnionSet_init(mem) == UnionSet_init_from_slice(mem, 0)

UnionSet_operate(mem, set, src) == UnionSet_insert_all_lines(mem, set, src)

IntersectSet_init(mem) == SliceSet_init_from_slice(mem, 0)

\* operate with the predicate of retain negated
IntersectSet_operate_diff(mem, set, src) ==
  LET o == SliceSet_init_from_slice(mem, src)
  IN SelectSeq(set, LAMBDA e : ~contains(mem, o, e))

\* operate that filters the transient set by the accumulator and keeps it
IntersectSet_operate_from_other(mem, set, src) ==
  retain(mem, SliceSet_init_from_slice(mem, src), set)

IntersectSet_operate(mem, set, src) ==
  retain(mem, set, SliceSet_init_from_slice(mem, src))

\* rite_to over result_lines: one write_all per entry, in iteration order
UnionSet_write_to(set) == set

IntersectSet_write_to(mem, set) == [i \in DOMAIN set |-> Content(mem, set[i])]

\* the insert_line calls of one insert_all_lines on receiver recv
Calls(mem, recv, src) ==
  LET ls == insert_all_lines_args(mem, src)
  IN [i \in DOMAIN ls |-> [recv |-> recv, line |-> ls[i]]]

----------------------------------------------------------------------------
\* The run

Init ==
  /\ op \in {"Union", "Intersect"}
  /\ texts \in Inputs
  /\ pos = 0
  /\ pc = "start"
  /\ text = <<>>
  /\ uset = <<>>
  /\ iset = <<>>
  /\ other = <<>>
  /\ calls = <<>>
  /\ log = <<>>
  /\ output = <<>>

\* do_calculation on an empty iterator: texts.next() is None and unwrap panics
DoCalculationNone ==
  /\ pc = "start"
  /\ Len(texts) = 0
  /\ pc' = "panicked"
  /\ UNCHANGED <<op, texts, pos, text, uset, iset, other, calls, log, output>>

\* do_calculation, OpName::Union arm: UnionSet::init(txt.to_vec())
DoCalculationUnion ==
  /\ pc = "start"
  /\ Len(texts) > 0
  /\ op = "Union"
  /\ pos' = 1
  /\ text' = texts[1]
  /\ uset' = UnionSet_init(Mem(texts[1]))
  /\ calls' = calls \o Calls(Mem(texts[1]), "acc", 0)
  /\ log' = Append(log, <<"init", 1>>)
  /\ pc' = "fold"
  /\ UNCHANGED <<op, texts, iset, other, output>>

\* do_calculation, OpName::Intersect arm: IntersectSet::init(txt.to_vec())
DoCalculationIntersect ==
  /\ pc = "start"
  /\ Len(texts) > 0
  /\ op = "Intersect"
  /\ pos' = 1
  /\ text' = texts[1]
  /\ iset' = IntersectSet_init(Mem(texts[1]))
  /\ calls' = calls \o Calls(Mem(texts[1]), "acc", 0)
  /\ log' = Append(log, <<"init", 1>>)
  /\ pc' = "fold"
  /\ UNCHANGED <<op, texts, uset, other, output>>

\* one iteration of the loop of calculate_and_print on a UnionSet
OperateUnion ==
  /\ pc = "fold"
  /\ op = "Union"
  /\ pos < Len(texts)
  /\ pos' = pos + 1
  /\ uset' = UnionSet_operate(Mem(text), uset, pos + 1)
  /\ calls' = calls \o Calls(Mem(text), "acc", pos + 1)
  /\ log' = Append(log, <<"operate", pos + 1>>)
  /\ UNCHANGED <<op, texts, pc, text, iset, other, output>>

\* one iteration of the loop of calculate_and_print on an IntersectSet
OperateIntersect ==
  /\ pc = "fold"
  /\ op = "Intersect"
  /\ pos < Len(texts)
  /\ pos' = pos + 1
  /\ other' = SliceSet_init_from_slice(Mem(text), pos + 1)
  /\ iset' = IntersectSet_operate(Mem(text), iset, pos + 1)
  /\ calls' = calls \o Calls(Mem(text), "other", pos + 1)
  /\ log' = Append(log, <<"operate", pos + 1>>)
  /\ UNCHANGED <<op, texts, pc, text, uset, output>>

\* write_to as soon as the accumulator is seeded
WriteTo_early ==
  /\ pc = "fold"
  /\ pos >= 1
  /\ output' = IF op = "Union" THEN UnionSet_write_to(uset)
               ELSE IntersectSet_write_to(Mem(text), iset)
  /\ log' = Append(log, <<"write_to", pos>>)
  /\ pc' = "done"
  /\ UNCHANGED <<op, texts, pos, text, uset, iset, other, calls>>

\* the loop is over: finish (a no-op) and write_to
WriteTo ==
  /\ pc = "fold"
  /\ pos = Len(texts)
  /\ output' = IF op = "Union" THEN UnionSet_write_to(uset)
               ELSE IntersectSet_write_to(Mem(text), iset)
  /\ log' = Append(log, <<"write_to", pos>>)
  /\ pc' = "done"
  /\ UNCHANGED <<op, texts, pos, text, uset, iset, other, calls>>

Next ==
  \/ DoCalculationNone
  \/ DoCalculationUnion
  \/ DoCalculationIntersect
  \/ OperateUnion
  \/ OperateIntersect
  \/ WriteTo

Spec == Init /\ [][Next]_vars

----------------------------------------------------------------------------
\* Reference notions the properties are stated with

Range(s) == {s[i] : i \in DOMAIN s}

\* the subsequence of s at the indices in I
Restrict(s, I) ==
  LET F[k \in 0..Len(s)] ==
        IF k = 0 THEN <<>>
        ELSE IF k \in I THEN Append(F[k - 1], s[k]) ELSE F[k - 1]
  IN F[Len(s)]

\* s with every element kept at its first occurrence only
FirstOccurrences(s) ==
  Restrict(s, {i \in DOMAIN s : \A j \in 1..(i - 1) : s[j] # s[i]})

NoDuplicates(s) == \A i, j \in DOMAIN s : s[i] = s[j] => i = j

IsPrefix(s, t) == Len(s) <= Len(t) /\ SubSeq(t, 1, Len(s)) = s

\* the lines of a buffer: a line starts at the first byte and after every
\* newline, and runs to the next newline (included) or the end
LineStarts(t) == {i \in 1..Len(t) : i = 1 \/ t[i - 1] = NL}

LineEnd(t, s) ==
  CHOOSE e \in s..Len(t) :
    (t[e] = NL \/ e = Len(t)) /\ \A j \in s..(e - 1) : t[j] # NL

LinesOf(t) ==
  LET F[k \in 0..Len(t)] ==
        IF k = 0 THEN <<>>
        ELSE IF k \in LineStarts(t)
             THEN Append(F[k - 1], SubSeq(t, k, LineEnd(t, k)))
             ELSE F[k - 1]
  IN F[Len(t)]

\* the lines of all buffers, left to right and top to bottom
AllLinesOf(ts) ==
  LET F[k \in 0..Len(ts)] == IF k = 0 THEN <<>> ELSE F[k - 1] \o LinesOf(ts[k])
  IN F[Len(ts)]

\* the bytes of the entries of a SliceSet, in order
ContentsOf(set) == [i \in DOMAIN set |-> Content(Mem(text), set[i])]

\* the lines passed to insert_line so far that are slices of buffer src
LinesPassed(src) ==
  LET cs == Restrict(calls, {i \in DOMAIN calls : calls[i].line.src = src})
  IN [i \in DOMAIN cs |-> cs[i].line]

\* the lines passed so far to insert_line of the accumulator
AccLinesPassed ==
  LET cs == Restrict(calls, {i \in DOMAIN calls : calls[i].recv = "acc"})
  IN [i \in DOMAIN cs |-> cs[i].line]

Concat(ss) ==
  LET F[k \in 0..Len(ss)] == IF k = 0 THEN <<>> ELSE F[k - 1] \o ss[k]
  IN F[Len(ss)]

Seeded == pc \in {"fold", "done"}

----------------------------------------------------------------------------
\* C1: Union. When a Union run over a non-empty buffer sequence is done, the
\* lines written are exactly the distinct lines occurring in at least one
\* buffer, each once, in the order of their first occurrence scanning the
\* buffers left to right and each buffer top to bottom.
C1_UnionResult ==
  (pc = "done" /\ op = "Union") =>
    output = FirstOccurrences(AllLinesOf(texts))

\* a finished Union of two buffers where the second one repeats a line of the
\* first and brings a new one
C1_Witness ==
  /\ pc = "done" /\ op = "Union" /\ Len(texts) = 2
  /\ Range(LinesOf(texts[1])) \cap Range(LinesOf(texts[2])) # {}
  /\ \E i \in DOMAIN output : output[i] \notin Range(LinesOf(texts[1]))
  /\ Len(output) < Len(AllLinesOf(texts))
  /\ Len(output) >= 2

\* C2: Intersect. When an Intersect run over a non-empty buffer sequence is
\* done, the lines written are exactly the distinct lines of the first buffer
\* that also occur in every other buffer, each once, in the order of their
\* first occurrence in the first buffer.
C2_IntersectResult ==
  (pc = "done" /\ op = "Intersect") =>
    output = SelectSeq(FirstOccurrences(LinesOf(texts[1])),
                       LAMBDA c : \A k \in 2..Len(texts) :
                                    c \in Range(LinesOf(texts[k])))

\* a finished Intersect of two buffers that kept a line and dropped another
C2_Witness ==
  /\ pc = "done" /\ op = "Intersect" /\ Len(texts) = 2
  /\ output # <<>>
  /\ Len(output) < Len(FirstOccurrences(LinesOf(texts[1])))

\* C3: Empty-input failure. Given zero buffers, do_calculation ends in an
\* InvalidInput failure reported to the caller, and no output line is written.
C3_EmptyInputInvalidInput ==
  (Len(texts) = 0 /\ pc # "start") => (pc = "InvalidInput" /\ output = <<>>)

\* C4: Single-operand identity. Given exactly one buffer, a finished run has
\* written, whatever the operation, that buffer's distinct lines in first-seen
\* order, duplicates collapsed to their first occurrence.
C4_SingleOperand ==
  (pc = "done" /\ Len(texts) = 1) =>
    output = FirstOccurrences(LinesOf(texts[1]))

\* a finished Intersect of one buffer holding a repeated line
C4_Witness ==
  /\ pc = "done" /\ Len(texts) = 1 /\ op = "Intersect"
  /\ output # <<>>
  /\ Len(output) < Len(LinesOf(texts[1]))

\* the lines ls, slices of buffer t, split t as the Line Splitter must
SplitsBuffer(t, ls) ==
  /\ Concat([i \in DOMAIN ls |-> SubSeq(t, ls[i].begin + 1, ls[i].end)]) = t
  /\ ls # <<>> => ls[1].begin = 0 /\ ls[Len(ls)].end = Len(t)
  /\ \A i \in 1..(Len(ls) - 1) : ls[i + 1].begin = ls[i].end
  /\ \A i \in DOMAIN ls : ls[i].begin < ls[i].end
  /\ \A i \in 1..(Len(ls) - 1) : t[ls[i].end] = NL
  /\ \A i \in DOMAIN ls : \A j \in (ls[i].begin + 1)..(ls[i].end - 1) : t[j] # NL
  /\ t = <<>> => ls = <<>>
  /\ (t # <<>> /\ \A j \in DOMAIN t : t[j] # NL) => Len(ls) = 1

\* C5: Line Splitter. For every buffer insert_all_lines has processed, the
\* lines it passed to insert_line cover the buffer end to end without gap or
\* overlap, every line but possibly the last ends with a newline as its last
\* byte, no line holds a newline elsewhere, an empty buffer gives no line and
\* a non-empty buffer without newline gives exactly one line.
C5_LineSplitter ==
  /\ Seeded => text = texts[1] /\ SplitsBuffer(text, LinesPassed(0))
  /\ \A k \in 2..pos : SplitsBuffer(texts[k], LinesPassed(k))

\* the second buffer was split into a terminated line and an unterminated one
C5_Witness ==
  /\ pos = 2
  /\ Len(LinesPassed(2)) = 2
  /\ texts[2][Len(texts[2])] # NL

\* C6: Intersect accumulator invariant. After init and after every operate,
\* every entry of the IntersectSet is a slice of the accumulator's own copy of
\* the first buffer, never of a later buffer or of a transient set, also when
\* a later buffer holds a line with the same bytes.
C6_IntersectViews ==
  (op = "Intersect" /\ Seeded) =>
    /\ text = texts[1]
    /\ \A i \in DOMAIN iset :
         /\ iset[i].src = 0
         /\ 0 <= iset[i].begin
         /\ iset[i].begin < iset[i].end
         /\ iset[i].end <= Len(text)

\* after an operate, the accumulator kept a line that the transient set of
\* the second buffer holds too, as a slice of that second buffer
C6_Witness ==
  /\ op = "Intersect" /\ pos = 2 /\ iset # <<>>
  /\ \E i \in DOMAIN other :
       /\ other[i].src = 2
       /\ Content(Mem(text), other[i]) = Content(Mem(text), iset[1])

\* C7: Ordered-set insertion. In both set variants no two entries have equal
\* content, iteration order is the order in which each distinct content was
\* first inserted, re-inserting content that is present leaves the set
\* unchanged, and inserting every line of a buffer twice into an empty set
\* gives the same set as inserting them once.
C7_OrderedInsertion ==
  LET mem == Mem(text)
      accLines == [i \in DOMAIN AccLinesPassed |-> Content(mem, AccLinesPassed[i])]
      otherLines == [i \in DOMAIN LinesPassed(pos) |-> Content(mem, LinesPassed(pos)[i])]
  IN /\ NoDuplicates(uset)
     /\ NoDuplicates(ContentsOf(iset))
     /\ NoDuplicates(ContentsOf(other))
     /\ op = "Union" => uset = FirstOccurrences(accLines)
     /\ (op = "Intersect" /\ pos = 1) => ContentsOf(iset) = FirstOccurrences(accLines)
     /\ (op = "Intersect" /\ pos >= 2) => ContentsOf(other) = FirstOccurrences(otherLines)
     /\ op = "Union" =>
          \A i \in DOMAIN AccLinesPassed :
            UnionSet_insert_line(mem, uset, AccLinesPassed[i]) = uset
     /\ (op = "Intersect" /\ pos >= 2) =>
          \A i \in DOMAIN LinesPassed(pos) :
            SliceSet_insert_line(mem, other, LinesPassed(pos)[i]) = other
     /\ Seeded =>
          \A k \in 0..Len(texts) :
            /\ UnionSet_insert_all_lines(mem, UnionSet_init_from_slice(mem, k), k)
                 = UnionSet_init_from_slice(mem, k)
            /\ SliceSet_insert_all_lines(mem, SliceSet_init_from_slice(mem, k), k)
                 = SliceSet_init_from_slice(mem, k)

\* a UnionSet that received from the second buffer a line it held from the
\* first, and holds two entries
C7_Witness ==
  /\ op = "Union" /\ pos = 2
  /\ Range(LinesOf(texts[1])) \cap Range(LinesOf(texts[2])) # {}
  /\ Len(uset) >= 2
  /\ Len(uset) < Len(AccLinesPassed)
  /\ LinesPassed(2) # <<>>

\* C8: Fold-step monotonicity. An Intersect operate step removes exactly the
\* entries whose content is absent from that step's buffer and keeps the
\* others in their order; a Union operate step only appends, so the
\* accumulator before the step is a prefix of the accumulator after it.
C8_FoldStep ==
  [][(pc = "fold" /\ pos' = pos + 1) =>
       /\ op = "Intersect" =>
            iset' = SelectSeq(iset, LAMBDA e :
                      Content(Mem(text), e) \in Range(LinesOf(texts[pos + 1])))
       /\ op = "Union" => IsPrefix(uset, uset')]_vars

\* an Intersect operate has removed the first of two entries and kept the
\* second
C8_Witness ==
  /\ op = "Intersect" /\ pos = 2 /\ pc = "fold"
  /\ Len(iset) = 1
  /\ Len(FirstOccurrences(LinesOf(texts[1]))) = 2
  /\ iset[1].begin > 0

\* the other form of a line: with the newline added or removed
Twin(c) == IF c # <<>> /\ c[Len(c)] = NL THEN SubSeq(c, 1, Len(c) - 1) ELSE Append(c, NL)

\* C9: Terminator-sensitive comparison. Lines are compared by all their
\* bytes, newline included: a finished Union holds a line and its twin (the
\* same bytes with or without the final newline) as two entries when both
\* occur, and a finished Intersect drops a line of the first buffer when a
\* later buffer holds only its twin.
C9_TerminatorSensitive ==
  pc = "done" =>
    /\ op = "Union" =>
         \A c \in Range(AllLinesOf(texts)) :
           Twin(c) \in Range(AllLinesOf(texts)) =>
             \E i, j \in DOMAIN output :
               i # j /\ output[i] = c /\ output[j] = Twin(c)
    /\ op = "Intersect" =>
         \A c \in Range(LinesOf(texts[1])) :
           (\E k \in 2..Len(texts) :
              /\ c \notin Range(LinesOf(texts[k]))
              /\ Twin(c) \in Range(LinesOf(texts[k]))) =>
             c \notin Range(output)

\* a finished Intersect whose first buffer ends in an unterminated line that
\* the second buffer holds only in terminated form, and that dropped it
C9_Witness ==
  /\ pc = "done" /\ op = "Intersect" /\ Len(texts) = 2
  /\ \E c \in Range(LinesOf(texts[1])) :
       /\ c # <<>> /\ c[Len(c)] # NL
       /\ c \notin Range(LinesOf(texts[2]))
       /\ Append(c, NL) \in Range(LinesOf(texts[2]))
       /\ c \notin Range(output)

\* the SetExpression calls of a complete run over n buffers
ExpectedLog(n) ==
  <<<<"init", 1>>>> \o [k \in 1..(n - 1) |-> <<"operate", k + 1>>]
    \o <<<<"write_to", n>>>>

====
